---- MODULE Spec2Model ----
(***************************************************************************)
(* Model of the almanac range-remapping programs part1 (src/bin/part1.rs,  *)
(* discrete seeds, linear lookup) and part2 (src/bin/part2.rs, seed        *)
(* ranges, sorted tables with binary-search lookup, parallel evaluation).  *)
(*                                                                         *)
(* Two specifications share the module:                                    *)
(*   SpecLookup  one mapping table and one source value; the actions apply *)
(*               the table lookup of part1 and of part2 to it;             *)
(*   Spec        a whole run of part1 or part2 on an input file: header,   *)
(*               seven parse_section calls, evaluation, minimum, result.   *)
(* usize arithmetic is modelled on unbounded naturals: every value of the  *)
(* model is far below 2^64, so no addition of the code overflows here.     *)
(***************************************************************************)
EXTENDS Integers, Sequences, FiniteSets, Bags, TLC

VARIABLES
    \* ---- SpecLookup ----
    rules,      \* the rule lines of one section, in input order
    ranges1,    \* part1 AlmanacRanges.ranges built from them (input order)
    ranges2,    \* part2 AlmanacRanges.ranges built from them (from_vec)
    source,     \* the source value looked up
    dst1,       \* <<>> or <<d>>: outcome of part1's lookup of source
    dst2,       \* <<>> or <<d>>: outcome of part2's lookup of source
    \* ---- Spec ----
    mode,       \* "part1" or "part2": the binary that runs
    given,      \* what the input file was written from (never read by the run)
    input,      \* the input file: a sequence of lines
    pos,        \* the io::Lines cursor: the number of lines consumed
    pc,         \* "header", "section", "eval", "done", or "idle"
    almanac,    \* the Almanac struct (seeds and the seven tables)
    nparsed,    \* parse_section calls completed
    todo,       \* seed items not yet sent through the pipeline
    minAcc,     \* part1: the accumulator of Iterator::min (None or Some)
    partials,   \* part2: the bag of partial minima of the parallel min
    result      \* the outcome of part1() / part2()

lookupVars == <<rules, ranges1, ranges2, source, dst1, dst2>>
runVars == <<mode, given, input, pos, pc, almanac, nparsed, todo, minAcc,
             partials, result>>
vars == <<rules, ranges1, ranges2, source, dst1, dst2,
          mode, given, input, pos, pc, almanac, nparsed, todo, minAcc,
          partials, result>>

(***************************************************************************)
(* Bounds of the lookup specification.                                     *)
(***************************************************************************)
MaxSource == 4      \* sources and source_start range over 0..MaxSource
MaxLen == 2         \* range_length ranges over 1..MaxLen
MaxRules == 2       \* a table holds 0..MaxRules rules

\* A panic of the program (a failed unwrap, index or assert_eq!) as a value
\* that is no usize.
Panic == -1

Min2(a, b) == IF b < a THEN b ELSE a

(***************************************************************************)
(* AlmanacRange: a rule line "destination_start source_start range_length" *)
(***************************************************************************)
AlmanacRange(dst, src, len) ==
    [source_start |-> src, destination_start |-> dst, range_length |-> len]

None == <<>>
Some(v) == <<v>>

\* part1.rs AlmanacRange::get_destination: None, or Some(destination).
P1_range_get_destination(r, s) ==
    IF s < r.source_start \/ s > r.source_start + r.range_length
    THEN None
    ELSE Some(r.destination_start + (s - r.source_start))

\* part2.rs AlmanacRange::get_destination (the same text as part1's).
P2_range_get_destination(r, s) ==
    IF s < r.source_start \/ s > r.source_start + r.range_length
    THEN None
    ELSE Some(r.destination_start + (s - r.source_start))

\* part1.rs AlmanacRanges::get_destination: the first Some of a scan of the
\* rules in vector order (filter_map(..).next()), unwrap_or(source).
RECURSIVE P1_first_match(_, _, _)
P1_first_match(ranges, s, i) ==
    IF i > Len(ranges) THEN None
    ELSE IF P1_range_get_destination(ranges[i], s) # None
         THEN P1_range_get_destination(ranges[i], s)
         ELSE P1_first_match(ranges, s, i + 1)

P1_get_destination(ranges, s) ==
    LET m == P1_first_match(ranges, s, 1)
    IN  IF m = None THEN s ELSE m[1]

\* part2.rs AlmanacRanges::from_vec: sort_by_key(source_start), a stable sort.
RECURSIVE InsertSorted(_, _)
InsertSorted(sorted, r) ==
    IF sorted = <<>> THEN <<r>>
    ELSE IF r.source_start < Head(sorted).source_start
         THEN <<r>> \o sorted
         ELSE <<Head(sorted)>> \o InsertSorted(Tail(sorted), r)

RECURSIVE from_vec(_)
from_vec(ranges) ==
    IF ranges = <<>> THEN <<>>
    ELSE InsertSorted(from_vec(SubSeq(ranges, 1, Len(ranges) - 1)),
                      ranges[Len(ranges)])

\* slice::binary_search_by_key(&source, |r| r.source_start) over the sorted
\* vector: Ok(index of the rule whose source_start is source) or Err(index
\* where it would be inserted); indices are 0-based as in the code.
RECURSIVE binary_search_by_key(_, _, _, _)
binary_search_by_key(ranges, s, left, right) ==
    IF left >= right THEN [ok |-> FALSE, idx |-> left]
    ELSE LET mid == left + ((right - left) \div 2)
             key == ranges[mid + 1].source_start
         IN  IF key = s THEN [ok |-> TRUE, idx |-> mid]
             ELSE IF key < s
                  THEN binary_search_by_key(ranges, s, mid + 1, right)
                  ELSE binary_search_by_key(ranges, s, left, mid)

\* Option::unwrap_or-style match of lines 50-54 and 57-60.
P2_check_range(r, s) ==
    IF P2_range_get_destination(r, s) # None
    THEN P2_range_get_destination(r, s)[1]
    ELSE s

\* A plausible slip: the guarded arm `Err(i) if i == len` tried before
\* `Err(0)`, so an empty vector reaches last().unwrap().
P2_get_destination_LastArmFirst(ranges, s) ==
    LET res == binary_search_by_key(ranges, s, 0, Len(ranges))
    IN  IF res.ok THEN ranges[res.idx + 1].destination_start
        ELSE IF res.idx = Len(ranges)
             THEN IF ranges = <<>> THEN Panic
                  ELSE P2_check_range(ranges[Len(ranges)], s)
        ELSE IF res.idx = 0 THEN s
        ELSE P2_check_range(ranges[res.idx], s)

\* part2.rs AlmanacRanges::get_destination.
P2_get_destination(ranges, s) ==
    LET res == binary_search_by_key(ranges, s, 0, Len(ranges))
    IN  IF res.ok THEN ranges[res.idx + 1].destination_start
        ELSE IF res.idx = 0 THEN s
        ELSE IF res.idx = Len(ranges)
             THEN IF ranges = <<>> THEN Panic
                  ELSE P2_check_range(ranges[Len(ranges)], s)
        ELSE P2_check_range(ranges[res.idx], s)

(***************************************************************************)
(* SpecLookup: the inputs are a list of rules with pairwise-disjoint       *)
(* half-open source intervals and positive lengths, in any input order,    *)
(* and one source value.                                                   *)
(***************************************************************************)
DestinationStarts == {0, MaxSource + 3}

RuleSet ==
    { AlmanacRange(d, s, l) : d \in DestinationStarts,
                              s \in 0..MaxSource, l \in 1..MaxLen }

SourceEnd(r) == r.source_start + r.range_length

Covers(r, s) == r.source_start <= s /\ s < SourceEnd(r)

Disjoint(r, q) ==
    SourceEnd(r) <= q.source_start \/ SourceEnd(q) <= r.source_start

PairwiseDisjoint(rs) ==
    \A i, j \in 1..Len(rs) : i # j => Disjoint(rs[i], rs[j])

RuleLists ==
    { rs \in UNION { [1..n -> RuleSet] : n \in 0..MaxRules } :
        PairwiseDisjoint(rs) }

Sources == 0..(MaxSource + MaxLen + 1)

Running == [tag |-> "Running", value |-> 0, msg |-> ""]

EmptyAlmanac ==
    [seeds |-> <<>>,
     seed_to_soil |-> <<>>, soil_to_fertilizer |-> <<>>,
     fertilizer_to_water |-> <<>>, water_to_light |-> <<>>,
     light_to_temperature |-> <<>>, temperature_to_humidity |-> <<>>,
     humidity_to_location |-> <<>>]

RunIdle ==
    /\ mode = "none"
    /\ given = <<>>
    /\ input = <<>>
    /\ pos = 0
    /\ pc = "idle"
    /\ almanac = EmptyAlmanac
    /\ nparsed = 0
    /\ todo = {}
    /\ minAcc = None
    /\ partials = EmptyBag
    /\ result = Running

InitLookup ==
    /\ RunIdle
    /\ rules \in RuleLists
    /\ ranges1 = rules
    /\ ranges2 = from_vec(rules)
    /\ source \in Sources
    /\ dst1 = None
    /\ dst2 = None

Lookup1 ==
    /\ dst1 = None
    /\ dst1' = Some(P1_get_destination(ranges1, source))
    /\ UNCHANGED <<rules, ranges1, ranges2, source, dst2>>
    /\ UNCHANGED runVars

Lookup2 ==
    /\ dst2 = None
    /\ dst2' = Some(P2_get_destination(ranges2, source))
    /\ UNCHANGED <<rules, ranges1, ranges2, source, dst1>>
    /\ UNCHANGED runVars

NextLookup == Lookup1 \/ Lookup2

SpecLookup == InitLookup /\ [][NextLookup]_vars

(***************************************************************************)
(* The input file: a sequence of lines.                                    *)
(*   "first"    "<header>: <numbers>"  (holds the separator ": ")          *)
(*   "nosep"    a line of text without ": " and not ending in ':'          *)
(*   "blank"    the empty line                                             *)
(*   "label"    a line ending in ':'                                       *)
(*   "numbers"  space-separated integers                                   *)
(***************************************************************************)
Line(kind, header, numbers) ==
    [kind |-> kind, header |-> header, numbers |-> numbers]

FirstLine(header, numbers) == Line("first", header, numbers)
NoSepLine == Line("nosep", "", <<>>)
BlankLine == Line("blank", "", <<>>)
LabelLine == Line("label", "", <<>>)
NumbersLine(numbers) == Line("numbers", "", numbers)

RuleLine(r) ==
    NumbersLine(<<r.destination_start, r.source_start, r.range_length>>)

NumSections == 7

RECURSIVE RuleLines(_)
RuleLines(rs) ==
    IF rs = <<>> THEN <<>> ELSE <<RuleLine(Head(rs))>> \o RuleLines(Tail(rs))

\* Section k of n: its label, its rule lines, and the blank line that
\* separates it from the next section.
RECURSIVE SectionLines(_, _)
SectionLines(sections, k) ==
    IF k > Len(sections) THEN <<>>
    ELSE <<LabelLine>> \o sections[k]
         \o (IF k < Len(sections) THEN <<BlankLine>> ELSE <<>>)
         \o SectionLines(sections, k + 1)

\* The file of section 6 of the specification: the seeds line, a blank
\* line, then the sections (each a sequence of lines after its label).
AlmanacText(header, numbers, sections) ==
    <<FirstLine(header, numbers), BlankLine>> \o SectionLines(sections, 1)

Ok(v) == [tag |-> "Ok", value |-> v, msg |-> ""]
Err(m) == [tag |-> "Err", value |-> 0, msg |-> m]
Panicked == [tag |-> "Panic", value |-> 0, msg |-> ""]

(***************************************************************************)
(* Parsing.                                                                *)
(***************************************************************************)
\* parse_ranges (part2): tuples() pairs the numbers two by two and drops a
\* trailing unpaired one; each pair (v1, v2) is the range v1..(v1 + v2).
RECURSIVE parse_ranges(_)
parse_ranges(numbers) ==
    IF Len(numbers) < 2 THEN <<>>
    ELSE <<[start |-> numbers[1], end |-> numbers[1] + numbers[2]]>>
         \o parse_ranges(SubSeq(numbers, 3, Len(numbers)))

\* take_while(|l| !l.is_empty()): the index of the first empty line after
\* pos, or Len(lines) + 1 when the lines run out first.
RECURSIVE SectionStop(_, _)
SectionStop(lines, p) ==
    IF p > Len(lines) THEN p
    ELSE IF lines[p].kind = "blank" THEN p
    ELSE SectionStop(lines, p + 1)

\* The filter_map closure on lines[p..q]: a line ending in ':' is dropped,
\* any other line is parsed as numbers (parse().unwrap()) and must hold
\* three of them (assert_eq!). The result is the collected rules, or a panic.
Collected(ranges) == [ok |-> TRUE, ranges |-> ranges]
CollectPanic == [ok |-> FALSE, ranges |-> <<>>]

RECURSIVE collect_ranges(_, _, _)
collect_ranges(lines, p, q) ==
    IF p > q THEN Collected(<<>>)
    ELSE IF lines[p].kind = "label" THEN collect_ranges(lines, p + 1, q)
    ELSE IF lines[p].kind # "numbers" \/ Len(lines[p].numbers) # 3
         THEN CollectPanic
    ELSE LET rest == collect_ranges(lines, p + 1, q)
             n == lines[p].numbers
         IN  IF ~rest.ok THEN CollectPanic
             ELSE Collected(<<AlmanacRange(n[1], n[2], n[3])>> \o rest.ranges)

\* The lines one parse_section call reads, and the cursor after it (the
\* empty line that stops take_while is consumed).
SectionRanges(lines, p) == collect_ranges(lines, p + 1, SectionStop(lines, p + 1) - 1)

SectionCursor(lines, p) == Min2(SectionStop(lines, p + 1), Len(lines))

\* part1.rs parse_section: the rules in input order.
P1_parse_section(lines, p) == SectionRanges(lines, p)

\* part2.rs parse_section: the rules through from_vec.
P2_parse_section(lines, p) ==
    IF ~SectionRanges(lines, p).ok THEN CollectPanic
    ELSE Collected(from_vec(SectionRanges(lines, p).ranges))

Fields ==
    <<"seed_to_soil", "soil_to_fertilizer", "fertilizer_to_water",
      "water_to_light", "light_to_temperature", "temperature_to_humidity",
      "humidity_to_location">>

(***************************************************************************)
(* Evaluation.                                                             *)
(***************************************************************************)
\* A plausible slip: two neighbouring stages of the chain exchanged.
P1_pipeline_StagesSwapped(a, s) ==
    LET soil == P1_get_destination(a.seed_to_soil, s)
        water == P1_get_destination(a.fertilizer_to_water, soil)
        fertilizer == P1_get_destination(a.soil_to_fertilizer, water)
        light == P1_get_destination(a.water_to_light, fertilizer)
        temperature == P1_get_destination(a.light_to_temperature, light)
        humidity == P1_get_destination(a.temperature_to_humidity, temperature)
    IN  P1_get_destination(a.humidity_to_location, humidity)

\* part1.rs lines 103-109: the chain of seven map() stages on one seed.
P1_pipeline(a, s) ==
    LET soil == P1_get_destination(a.seed_to_soil, s)
        fertilizer == P1_get_destination(a.soil_to_fertilizer, soil)
        water == P1_get_destination(a.fertilizer_to_water, fertilizer)
        light == P1_get_destination(a.water_to_light, water)
        temperature == P1_get_destination(a.light_to_temperature, light)
        humidity == P1_get_destination(a.temperature_to_humidity, temperature)
    IN  P1_get_destination(a.humidity_to_location, humidity)

\* part2.rs lines 148-154: the same chain on one value of a seed range.
P2_pipeline(a, s) ==
    LET soil == P2_get_destination(a.seed_to_soil, s)
        fertilizer == P2_get_destination(a.soil_to_fertilizer, soil)
        water == P2_get_destination(a.fertilizer_to_water, fertilizer)
        light == P2_get_destination(a.water_to_light, water)
        temperature == P2_get_destination(a.light_to_temperature, light)
        humidity == P2_get_destination(a.temperature_to_humidity, temperature)
    IN  P2_get_destination(a.humidity_to_location, humidity)

\* A plausible slip: a reduction that keeps its left operand.
P2_reduce_KeepLeft(a, b) == a

\* The reduction of rayon's min(): the smaller of two partial minima.
P2_reduce(a, b) == Min2(a, b)

\* flatten() over the seed ranges: one item <<i, v>> per value v of range i.
P2_items(seeds) ==
    UNION { { <<i, v>> : v \in seeds[i].start..(seeds[i].end - 1) } :
            i \in 1..Len(seeds) }

\* A plausible slip: unwrap_or(0) in place of context("no minimum found").
P1_finish_DefaultZero(m) == IF m = None THEN Ok(0) ELSE Ok(m[1])

\* part1.rs lines 110-111: .min().context("no minimum found")
P1_finish(m) == IF m = None THEN Err("no minimum found") ELSE Ok(m[1])

\* part2.rs lines 155-156: .min().context("no minimum found")
P2_finish(m) == IF m = None THEN Err("no minimum found") ELSE Ok(m[1])

(***************************************************************************)
(* Spec: one run of part1 or part2.                                        *)
(***************************************************************************)
\* lines.next(), split_once(": "), assert_eq!(header, "seeds"), the seeds,
\* and the lines.next() that skips the second line.
ReadHeader ==
    /\ pc = "header"
    /\ IF input = <<>>
       THEN /\ result' = Err("can't get first line")
            /\ pc' = "done"
            /\ UNCHANGED <<almanac, pos>>
       ELSE IF input[1].kind # "first"
       THEN /\ result' = Err("can't parse first line")
            /\ pc' = "done"
            /\ pos' = 1
            /\ UNCHANGED almanac
       ELSE IF input[1].header # "seeds"
       THEN /\ result' = Panicked
            /\ pc' = "done"
            /\ pos' = 1
            /\ UNCHANGED almanac
       ELSE /\ almanac' =
                 [almanac EXCEPT !.seeds =
                     IF mode = "part1"
                     THEN { input[1].numbers[i] : i \in 1..Len(input[1].numbers) }
                     ELSE parse_ranges(input[1].numbers)]
            /\ pos' = Min2(2, Len(input))
            /\ pc' = "section"
            /\ UNCHANGED result
    /\ UNCHANGED <<mode, given, input, nparsed, todo, minAcc, partials>>
    /\ UNCHANGED lookupVars

\* The next parse_section call of the Almanac struct literal; after the
\* seventh the struct is built and the seed iterator is set up.
ParseSection ==
    /\ pc = "section"
    /\ LET t == IF mode = "part1" THEN P1_parse_section(input, pos)
                ELSE P2_parse_section(input, pos)
       IN  IF ~t.ok
           THEN /\ result' = Panicked
                /\ pc' = "done"
                /\ UNCHANGED <<almanac, nparsed, pos, todo>>
           ELSE /\ almanac' = [almanac EXCEPT ![Fields[nparsed + 1]] = t.ranges]
                /\ nparsed' = nparsed + 1
                /\ pos' = SectionCursor(input, pos)
                /\ IF nparsed + 1 = NumSections
                   THEN /\ pc' = "eval"
                        /\ todo' = IF mode = "part1" THEN almanac.seeds
                                   ELSE P2_items(almanac.seeds)
                   ELSE UNCHANGED <<pc, todo>>
                /\ UNCHANGED result
    /\ UNCHANGED <<mode, given, input, minAcc, partials>>
    /\ UNCHANGED lookupVars

\* part1: the HashSet iterator yields some remaining seed; it goes through
\* the chain and into the accumulator of min().
P1_Eval ==
    /\ pc = "eval" /\ mode = "part1"
    /\ \E s \in todo :
          /\ todo' = todo \ {s}
          /\ minAcc' = IF minAcc = None THEN Some(P1_pipeline(almanac, s))
                       ELSE Some(Min2(minAcc[1], P1_pipeline(almanac, s)))
    /\ UNCHANGED <<mode, given, input, pos, pc, almanac, nparsed, partials, result>>
    /\ UNCHANGED lookupVars

P1_Finish ==
    /\ pc = "eval" /\ mode = "part1"
    /\ todo = {}
    /\ result' = P1_finish(minAcc)
    /\ pc' = "done"
    /\ UNCHANGED <<mode, given, input, pos, almanac, nparsed, todo, minAcc, partials>>
    /\ UNCHANGED lookupVars

\* part2: some worker takes some remaining value of some seed range through
\* the chain; its destination is a new partial minimum.
P2_Eval ==
    /\ pc = "eval" /\ mode = "part2"
    /\ \E it \in todo :
          /\ todo' = todo \ {it}
          /\ partials' = partials (+) SetToBag({P2_pipeline(almanac, it[2])})
    /\ UNCHANGED <<mode, given, input, pos, pc, almanac, nparsed, minAcc, result>>
    /\ UNCHANGED lookupVars

\* part2: two partial minima are reduced to one, in either operand order.
P2_Combine ==
    /\ pc = "eval" /\ mode = "part2"
    /\ \E x, y \in BagToSet(partials) :
          /\ x # y \/ CopiesIn(x, partials) >= 2
          /\ partials' = (partials (-) (SetToBag({x}) (+) SetToBag({y})))
                            (+) SetToBag({P2_reduce(x, y)})
    /\ UNCHANGED <<mode, given, input, pos, pc, almanac, nparsed, todo, minAcc, result>>
    /\ UNCHANGED lookupVars

P2_Finish ==
    /\ pc = "eval" /\ mode = "part2"
    /\ todo = {}
    /\ BagCardinality(partials) <= 1
    /\ result' = P2_finish(IF partials = EmptyBag THEN None
                           ELSE Some(CHOOSE x \in BagToSet(partials) : TRUE))
    /\ pc' = "done"
    /\ UNCHANGED <<mode, given, input, pos, almanac, nparsed, todo, minAcc, partials>>
    /\ UNCHANGED lookupVars

(***************************************************************************)
(* The inputs of Spec.                                                     *)
(***************************************************************************)
MaxSeed == 3        \* the numbers of the seeds line range over 0..MaxSeed
MaxSeedNums == 3    \* the seeds line holds 0..MaxSeedNums numbers
MaxItems == 3       \* part2: the seed ranges hold at most MaxItems values

SeedLines == UNION { [1..n -> 0..MaxSeed] : n \in 0..MaxSeedNums }

\* Three tables that do not commute; TabY is unsorted in the input, TabZ
\* holds two adjacent rules.
TabX == <<AlmanacRange(3, 0, 2)>>
TabY == <<AlmanacRange(0, 3, 2), AlmanacRange(6, 1, 1)>>
TabZ == <<AlmanacRange(4, 1, 1), AlmanacRange(0, 2, 2)>>

BaseSections == <<TabX, TabY, <<>>, TabZ, <<>>, <<>>, <<>>>>

Rotate(seq, r) ==
    [k \in 1..Len(seq) |-> seq[((k - 1 + r) % Len(seq)) + 1]]

Given(file, header, numbers, sections, short) ==
    [file |-> file, header |-> header, numbers |-> numbers,
     sections |-> sections, short |-> short]

\* Seven sections, every rule line of three numbers.
WellFormedInputs ==
    { Given("text", "seeds", n, Rotate(BaseSections, r), 0) :
        n \in SeedLines, r \in 0..(NumSections - 1) }

\* The input ends before the seventh section.
TruncatedInputs ==
    { Given("text", "seeds", n, SubSeq(BaseSections, 1, k), 0) :
        n \in SeedLines, k \in 0..(NumSections - 1) }

\* An empty file, a first line without ": ", a first line with another
\* header, a rule line of two numbers in section k.
DefectiveInputs ==
    { Given("empty", "seeds", <<>>, <<>>, 0),
      Given("text", "", <<>>, BaseSections, 0),
      Given("text", "seed", <<1>>, BaseSections, 0) }
    \cup { Given("text", "seeds", <<1>>, BaseSections, k) : k \in 1..NumSections }

Inputs == WellFormedInputs \cup TruncatedInputs \cup DefectiveInputs

GivenSectionLines(g) ==
    [k \in 1..Len(g.sections) |->
        RuleLines(g.sections[k])
        \o (IF g.short = k THEN <<NumbersLine(<<1, 2>>)>> ELSE <<>>)]

Render(g) ==
    IF g.file = "empty" THEN <<>>
    ELSE IF g.header = ""
         THEN <<NoSepLine, BlankLine>> \o SectionLines(GivenSectionLines(g), 1)
         ELSE AlmanacText(g.header, g.numbers, GivenSectionLines(g))

LookupIdle ==
    /\ rules = <<>>
    /\ ranges1 = <<>>
    /\ ranges2 = <<>>
    /\ source = 0
    /\ dst1 = None
    /\ dst2 = None

Init ==
    /\ LookupIdle
    /\ mode \in {"part1", "part2"}
    /\ given \in Inputs
    /\ mode = "part2" =>
          Cardinality(P2_items(parse_ranges(given.numbers))) <= MaxItems
    /\ input = Render(given)
    /\ pos = 0
    /\ pc = "header"
    /\ almanac = EmptyAlmanac
    /\ nparsed = 0
    /\ todo = {}
    /\ minAcc = None
    /\ partials = EmptyBag
    /\ result = Running

Next ==
    \/ ReadHeader
    \/ ParseSection
    \/ P1_Eval
    \/ P1_Finish
    \/ P2_Eval
    \/ P2_Combine
    \/ P2_Finish

Spec == Init /\ [][Next]_vars

(***************************************************************************)
(* Claims about the table lookup, checked under SpecLookup.                *)
(***************************************************************************)

\* The destination under half-open rule intervals [source_start,
\* source_start + range_length): the offset image under the rule that
\* covers s, s itself when no rule covers it.
HalfOpenDestination(rs, s) ==
    IF \E i \in 1..Len(rs) : Covers(rs[i], s)
    THEN LET i == CHOOSE j \in 1..Len(rs) : Covers(rs[j], s)
         IN  rs[i].destination_start + (s - rs[i].source_start)
    ELSE s

BoundaryOK(d) ==
    \A i \in 1..Len(rules) :
        /\ source = rules[i].source_start => d = rules[i].destination_start
        /\ source = SourceEnd(rules[i]) => d = HalfOpenDestination(rules, source)

\* C1: in part1 and in part2, a source equal to a rule's source_start maps to
\* its destination_start, and a source equal to source_start + range_length
\* is not covered by that rule: it maps by the rule whose half-open interval
\* contains it, or to itself.
C1_BoundaryExclusive ==
    /\ dst1 # None => BoundaryOK(dst1[1])
    /\ dst2 # None => BoundaryOK(dst2[1])

InputOrders(rs) ==
    { [i \in 1..Len(rs) |-> rs[f[i]]] : f \in Permutations(1..Len(rs)) }

\* C3: part1's lookup returns the same destination under every permutation
\* of the (pairwise-disjoint) rules in the input.
C3_OrderIndependent ==
    dst1 # None =>
        \A p \in InputOrders(rules) : P1_get_destination(p, source) = dst1[1]

\* a < b lie in one contiguous sub-interval: inside one rule's half-open
\* source interval, or inside one gap (no point of a..b is covered).
SameSubInterval(rs, a, b) ==
    \/ \E i \in 1..Len(rs) : Covers(rs[i], a) /\ Covers(rs[i], b)
    \/ \A x \in a..b : \A i \in 1..Len(rs) : ~Covers(rs[i], x)

\* C4: part2's lookup has slope 1 on every contiguous sub-interval: for
\* a < b in one sub-interval, get_destination(b) - get_destination(a) = b - a.
C4_SlopeOne ==
    dst2 # None =>
        \A b \in Sources :
            (source < b /\ SameSubInterval(rules, source, b)) =>
                P2_get_destination(ranges2, b) - dst2[1] = b - source

\* C9: a table built from zero rules maps every source to itself, in part1
\* and in part2 (whose lookup reaches the identity without a panic).
C9_EmptyTableIdentity ==
    rules = <<>> =>
        /\ dst1 # None => dst1 = Some(source)
        /\ dst2 # None => dst2 = Some(source)

C9_Witness ==
    /\ rules = <<>> /\ ranges2 = <<>> /\ source > 0
    /\ dst1 = Some(source) /\ dst2 = Some(source)

\* C10: for pairwise-disjoint rules in any input order, part2's lookup
\* (sorted vector, binary search) and part1's lookup (first match of a linear
\* scan in input order) return the same destination.
C10_LookupsAgree ==
    (dst1 # None /\ dst2 # None) => dst1 = dst2

(***************************************************************************)
(* Claims about a whole run, checked under Spec.                           *)
(***************************************************************************)
SetMin(S) == CHOOSE x \in S : \A y \in S : x <= y

\* The seed values the seeds line stands for: part1, each number; part2,
\* every integer of [start, start + length) of each consecutive pair.
SeedValues(m, numbers) ==
    IF m = "part1" THEN { numbers[i] : i \in 1..Len(numbers) }
    ELSE UNION { numbers[i]..(numbers[i] + numbers[i + 1] - 1) :
                 i \in { j \in 1..(Len(numbers) - 1) : j % 2 = 1 } }

\* The k-th section of the input as the k-th table, applied in order.
RECURSIVE ThroughSections(_, _, _, _)
ThroughSections(m, sections, k, v) ==
    IF k > Len(sections) THEN v
    ELSE ThroughSections(m, sections, k + 1,
            IF m = "part1" THEN P1_get_destination(sections[k], v)
            ELSE P2_get_destination(from_vec(sections[k]), v))

WellFormed(m, g) ==
    /\ g.file = "text" /\ g.header = "seeds" /\ g.short = 0
    /\ Len(g.sections) = NumSections
    /\ m = "part2" => Len(g.numbers) % 2 = 0

\* C2: on a well-formed almanac with a non-empty seed set the run returns
\* the minimum, over every seed value, of the value obtained by applying the
\* seven tables' get_destination in the fixed order, the k-th section of the
\* input being the k-th table.
C2_MinimumLocation ==
    (pc = "done" /\ WellFormed(mode, given)
        /\ SeedValues(mode, given.numbers) # {}) =>
        result = Ok(SetMin({ ThroughSections(mode, given.sections, 1, s) :
                             s \in SeedValues(mode, given.numbers) }))

C2_Witness ==
    /\ pc = "done" /\ WellFormed(mode, given)
    /\ Cardinality(SeedValues(mode, given.numbers)) >= 3
    /\ result.tag = "Ok"
    /\ result.value \notin SeedValues(mode, given.numbers)
    /\ result.value # ThroughSections(mode, given.sections, 1,
                          SetMin(SeedValues(mode, given.numbers)))

\* The input has a valid seeds line, seven sections and only rule lines of
\* three numbers.
SevenSections(g) ==
    /\ g.file = "text" /\ g.header = "seeds" /\ g.short = 0
    /\ Len(g.sections) = NumSections

\* C5: in part2, a seeds line of an odd number of integers makes the run
\* fail: no result is returned from the remaining pairs.
C5_OddSeedsRejected ==
    (mode = "part2" /\ pc = "done" /\ SevenSections(given)
        /\ Len(given.numbers) % 2 = 1) =>
        result.tag # "Ok"

\* C6: when the input ends before seven sections were read (after a valid
\* seeds line), the run fails and returns no result.
C6_MissingSectionsRejected ==
    (pc = "done" /\ given.file = "text" /\ given.header = "seeds"
        /\ (mode = "part2" => Len(given.numbers) % 2 = 0)
        /\ Len(given.sections) < NumSections) =>
        result.tag # "Ok"

ParsedSeedSetEmpty ==
    IF mode = "part1" THEN almanac.seeds = {}
    ELSE P2_items(almanac.seeds) = {}

\* C7: when the parsed seed set is empty (part1: no integers; part2: no
\* complete pair, or only pairs of length 0), the run ends in the error
\* "no minimum found" and returns no number.
C7_EmptySeedsNoMinimum ==
    (pc = "done" /\ nparsed = NumSections /\ ParsedSeedSetEmpty) =>
        result = Err("no minimum found")

C7_Witness ==
    /\ pc = "done" /\ nparsed = NumSections /\ mode = "part2"
    /\ Len(given.numbers) = 2 /\ given.numbers[2] = 0
    /\ Len(almanac.seeds) = 1
    /\ result = Err("no minimum found")

\* The seed values of part2 in sequential order: range by range, each range
\* ascending.
RECURSIVE RangeValues(_, _)
RangeValues(lo, hi) ==
    IF lo >= hi THEN <<>> ELSE <<lo>> \o RangeValues(lo + 1, hi)

RECURSIVE SequentialValues(_)
SequentialValues(seeds) ==
    IF seeds = <<>> THEN <<>>
    ELSE RangeValues(Head(seeds).start, Head(seeds).end)
         \o SequentialValues(Tail(seeds))

\* A sequential left-to-right evaluation: each value through the chain, the
\* running minimum kept.
RECURSIVE SequentialMin(_, _, _)
SequentialMin(a, values, acc) ==
    IF values = <<>> THEN acc
    ELSE LET d == P2_pipeline(a, Head(values))
         IN  SequentialMin(a, Tail(values),
                IF acc = None THEN Some(d)
                ELSE IF d < acc[1] THEN Some(d) ELSE acc)

C8_SameAsSequential ==
    (mode = "part2" /\ pc = "done" /\ nparsed = NumSections) =>
        result = P2_finish(SequentialMin(almanac,
                                         SequentialValues(almanac.seeds), None))

\* C8: in part2 the result of the parallel evaluation is the same for every
\* interleaving of the evaluations and every order and grouping of the
\* reductions, and equals that of a sequential left-to-right evaluation;
\* no evaluation step changes the tables.
C8_ParallelDeterministic ==
    /\ []C8_SameAsSequential
    /\ [][pc = "eval" => almanac' = almanac]_vars

C8_Witness ==
    /\ mode = "part2" /\ pc = "done" /\ nparsed = NumSections
    /\ Len(SequentialValues(almanac.seeds)) >= 3
    /\ result.tag = "Ok"
    /\ result.value # P2_pipeline(almanac, SequentialValues(almanac.seeds)[1])
    /\ result.value #
         P2_pipeline(almanac,
             SequentialValues(almanac.seeds)[Len(SequentialValues(almanac.seeds))])

====
